---- MODULE Spec2Model ----
(***************************************************************************)
(* The leaf-aggregation witness generator                                  *)
(* (core/bin/witness_generator/src/leaf_aggregation.rs) as a state machine.*)
(*                                                                         *)
(* A pool of workers runs the JobProcessor loop against one relational     *)
(* store (the leaf-aggregation job rows, the prover-job rows and the       *)
(* node-aggregation rows) and one object store.  Every await of the source *)
(* is a step of its own, so that workers interleave at the points where    *)
(* the source can be suspended, and a transaction's writes stay in a       *)
(* per-worker buffer until commit.                                         *)
(***************************************************************************)
EXTENDS Integers, Sequences, FiniteSets, Bags, TLC

\* ------------------------------------------------------------------ bounds
NumWorkers == 2
MaxAggregations == 2

Workers == 1..NumWorkers

\* The leaf-aggregation job rows the upstream stage created: one row per
\* (batch, circuit), here two circuits of one batch.
JobRows ==
    {[id |-> 1, block_number |-> 1, circuit_id |-> 1],
     [id |-> 2, block_number |-> 1, circuit_id |-> 2]}

JobIds == {m.id : m \in JobRows}

VARIABLES
    status,        \* leaf-aggregation job row: queued / in_progress / successful / failed
    error,         \* leaf-aggregation job row: the recorded error text ("" when none)
    prover_jobs,   \* the prover-job rows, a bag of rows
    node_jobs,     \* the node-aggregation rows: key -> dependent-job count and url
    blobs,         \* the keys present in the object store
    proofs,        \* per job: the proof variants its prover_job_ids_for_proofs resolve to
    pc,            \* per worker: the position in the JobProcessor loop
    job_id,        \* per worker: the JobId get_next_job returned (NoJob when none)
    metadata,      \* per worker: the claimed row's id (NoJob when none)
    last_get,      \* per worker: how its last get_next_job call ended
    artifacts,     \* per worker: the LeafAggregationArtifacts of the running job
    blob_urls,     \* per worker: the BlobUrls being built by save_artifacts
    transaction,   \* per worker: the open transaction's buffered writes
    failure,       \* per worker: the error message carried to save_failure
    connection,    \* the workers holding a connection of the prover connection pool
    leaf_vk,       \* per worker: the leaf key id its preparation computed
    returned,      \* history: how many get_next_job calls returned each id
    fatal,         \* history: per job, the fatal error that hit it ("" when none)
    computed,      \* history: the jobs create_leaf_witnesses ran for
    handed,        \* history: per job, the BlobUrls update_database was called with
    trace,         \* history: per job, the phases it has entered, in order
    outcomes       \* history: per job, the marks that took effect on its row, in order

vars == <<status, error, prover_jobs, node_jobs, blobs, proofs, pc, job_id, metadata,
          last_get, artifacts, blob_urls, transaction, failure, connection,
          leaf_vk, returned, fatal, computed, handed, trace, outcomes>>

store == <<status, error, prover_jobs, node_jobs>>
history == <<returned, fatal, computed, handed>>

NoJob == 0
NoUrl == <<>>
NoArtifacts == [circuit_id |-> 0, block_number |-> 0, aggregations |-> <<>>]
NoBlobUrls == [circuit_ids_and_urls |-> <<>>, aggregations_urls |-> NoUrl]
NoTransaction == [open |-> FALSE, prover_jobs |-> <<>>, node_jobs |-> <<>>, successful |-> <<>>]
NullNodeJob == [number_of_dependent_jobs |-> -1, aggregations_url |-> NoUrl]

\* ------------------------------------------------------------ data model

\* AggregationRound, in pipeline order.
PipelineRound == <<"BasicCircuits", "LeafAggregation", "NodeAggregation", "Scheduler">>

RoundIndex(r) == CHOOSE i \in 1..Len(PipelineRound) : PipelineRound[i] = r

NextRound(r) == PipelineRound[RoundIndex(r) + 1]

\* LeafAggregationJobMetadata of the row with id j.
JobMetadata(j) == CHOOSE m \in JobRows : m.id = j

get_recursive_layer_circuit_id_for_base_layer(circuit_id) == circuit_id + 2

\* Object-store keys; the url of a blob is its key.
ClosedFormInputKey(block_number, circuit_id) ==
    <<"closed_form_inputs", block_number, circuit_id, 0, "", 0>>

AggregationsKey(block_number, circuit_id, depth) ==
    <<"aggregations", block_number, circuit_id, 0, "", depth>>

FriCircuitKey(block_number, sequence_number, circuit_id, round, depth) ==
    <<"circuit", block_number, circuit_id, sequence_number, round, depth>>


\* The node-aggregation rows update_node_aggregation_jobs_url can select.
NodeKeys ==
    {<<JobMetadata(j).block_number,
       get_recursive_layer_circuit_id_for_base_layer(JobMetadata(j).circuit_id), 0>> :
        j \in JobIds}

\* What prover_job_ids_for_proofs can resolve to (FriProofWrapper variants).
ProofLists == {<<"Base", "Base">>, <<"Base", "Recursive">>}

\* The largest value of a u8, the type of circuit_id.
U8Max == 255

\* No leaf key id: no circuit id read, nothing computed.
NoVk == [circuit_id |-> <<>>, value |-> <<>>, panic |-> FALSE]

\* prepare_leaf_aggregation_job, line 169: metadata.circuit_id + 2 on u8.  A sum
\* above U8Max panics in a build with overflow checks and wraps in one without.
leaf_vk_circuit_type(circuit_id) ==
    IF circuit_id + 2 <= U8Max
    THEN {[circuit_id |-> <<circuit_id>>, value |-> <<circuit_id + 2>>, panic |-> FALSE]}
    ELSE {[circuit_id |-> <<circuit_id>>, value |-> <<>>, panic |-> TRUE],
          [circuit_id |-> <<circuit_id>>, value |-> <<(circuit_id + 2) % (U8Max + 1)>>,
           panic |-> FALSE]}

\* A row of the prover-jobs table as insert_prover_jobs writes it.
ProverJobRow(block_number, circuit_id, url, round, depth, sequence_number) ==
    [l1_batch_number |-> block_number,
     circuit_id |-> circuit_id,
     circuit_blob_url |-> url,
     aggregation_round |-> round,
     depth |-> depth,
     sequence_number |-> sequence_number]

RECURSIVE SeqToBag(_)
SeqToBag(s) ==
    IF s = <<>> THEN EmptyBag ELSE SetToBag({Head(s)}) (+) SeqToBag(Tail(s))

\* ------------------------------------------------------------------ Init

Init ==
    /\ status = [j \in JobIds |-> "queued"]
    /\ error = [j \in JobIds |-> ""]
    /\ prover_jobs = EmptyBag
    /\ node_jobs = [k \in NodeKeys |-> NullNodeJob]
    /\ blobs \in SUBSET {ClosedFormInputKey(JobMetadata(j).block_number,
                                            JobMetadata(j).circuit_id) : j \in JobIds}
    /\ proofs \in [JobIds -> ProofLists]
    /\ pc = [w \in Workers |-> "idle"]
    /\ job_id = [w \in Workers |-> NoJob]
    /\ metadata = [w \in Workers |-> NoJob]
    /\ last_get = [w \in Workers |-> "-"]
    /\ artifacts = [w \in Workers |-> NoArtifacts]
    /\ blob_urls = [w \in Workers |-> NoBlobUrls]
    /\ transaction = [w \in Workers |-> NoTransaction]
    /\ failure = [w \in Workers |-> ""]
    /\ connection = {}
    /\ leaf_vk = [w \in Workers |-> NoVk]
    /\ returned = EmptyBag
    /\ fatal = [j \in JobIds |-> ""]
    /\ computed = {}
    /\ handed = [j \in JobIds |-> NoBlobUrls]
    /\ trace = [j \in JobIds |-> <<>>]
    /\ outcomes = [j \in JobIds |-> <<>>]

\* --------------------------------------------------------- get_next_job

\* The row the store's claim may hand out: one nobody has claimed.
Eligible(j) == status[j] = "queued"

\* get_next_job, lines 102-106: the store claims one eligible row in a single
\* statement and returns its metadata.
get_next_leaf_aggregation_job(w) ==
    /\ pc[w] = "idle"
    /\ \E j \in JobIds :
        /\ Eligible(j)
        /\ status' = [status EXCEPT ![j] = "in_progress"]
        /\ metadata' = [metadata EXCEPT ![w] = j]
        /\ trace' = [trace EXCEPT ![j] = Append(@, "claim")]
    /\ pc' = [pc EXCEPT ![w] = "prepare"]
    /\ last_get' = [last_get EXCEPT ![w] = "pending"]
    /\ job_id' = [job_id EXCEPT ![w] = NoJob]
    /\ connection' = connection \cup {w}
    /\ UNCHANGED <<error, prover_jobs, node_jobs, blobs, proofs, leaf_vk, outcomes,
                   artifacts, blob_urls, transaction, failure, history>>

\* get_next_job, line 106: the `?` returns None when the store has no eligible row.
get_next_job_none(w) ==
    /\ pc[w] = "idle"
    /\ ~ \E j \in JobIds : Eligible(j)
    /\ last_get' = [last_get EXCEPT ![w] = "None"]
    /\ UNCHANGED <<store, blobs, proofs, leaf_vk, outcomes, trace, connection, pc, job_id,
                   metadata, artifacts, blob_urls, transaction, failure, history>>

\* Mutant: a missing closed-form input is replaced by an empty default.
get_artifacts_or_default(m) == "ok"

\* get_artifacts: the closed-form input of the job's (batch, circuit), or a panic.
get_artifacts(m) ==
    IF ClosedFormInputKey(m.block_number, m.circuit_id) \in blobs
    THEN "ok"
    ELSE "leaf aggregation job artifacts missing"

\* Mutant: Recursive proofs are dropped from the list instead of panicking.
base_proofs_filtered(m) == "ok"

\* prepare_leaf_aggregation_job, lines 170-178: every proof must be a Base proof.
base_proofs(m) ==
    IF \E i \in 1..Len(proofs[m.id]) : proofs[m.id][i] = "Recursive"
    THEN "Expected only base proofs for leaf agg"
    ELSE "ok"

\* The panic message prepare_leaf_aggregation_job ends with, "ok" when it
\* returns; vk is what line 169 computed.
prepare_result(m, vk) ==
    IF get_artifacts(m) # "ok" THEN get_artifacts(m)
    ELSE IF vk.panic THEN "attempt to add with overflow"
    ELSE base_proofs(m)

\* Mutant: the batch number is handed to the loop in place of the row's id.
returned_job_id_is_batch(m) == m.block_number

\* get_next_job, lines 108-111: the id handed to the loop with the prepared job.
returned_job_id(m) == m.id

\* Mutant: an error of the preparation is caught and get_next_job returns None,
\* the worker going on to its next poll.
prepare_leaf_aggregation_job_skips(w) ==
    /\ pc[w] = "prepare"
    /\ \E vk \in leaf_vk_circuit_type(JobMetadata(metadata[w]).circuit_id) :
       LET m == JobMetadata(metadata[w])
           r == prepare_result(m, vk)
       IN /\ leaf_vk' = [leaf_vk EXCEPT ![w] = IF get_artifacts(m) = "ok" THEN vk ELSE @]
          /\ IF r = "ok"
             THEN /\ pc' = [pc EXCEPT ![w] = "process_job"]
                  /\ last_get' = [last_get EXCEPT ![w] = "Some"]
                  /\ job_id' = [job_id EXCEPT ![w] = returned_job_id(m)]
                  /\ returned' = returned (+) SetToBag({returned_job_id(m)})
                  /\ UNCHANGED <<fatal, metadata>>
             ELSE /\ pc' = [pc EXCEPT ![w] = "idle"]
                  /\ last_get' = [last_get EXCEPT ![w] = "None"]
                  /\ metadata' = [metadata EXCEPT ![w] = NoJob]
                  /\ fatal' = [fatal EXCEPT ![m.id] = r]
                  /\ UNCHANGED <<job_id, returned>>
    /\ connection' = connection \ {w}
    /\ trace' = [trace EXCEPT ![metadata[w]] = Append(@, "prepare")]
    /\ UNCHANGED <<store, blobs, proofs, outcomes, artifacts, blob_urls, transaction,
                   failure, computed, handed>>

\* prepare_leaf_aggregation_job, awaited inside get_next_job: a panic leaves
\* get_next_job without a return value and unwinds the worker.
prepare_leaf_aggregation_job(w) ==
    /\ pc[w] = "prepare"
    /\ \E vk \in leaf_vk_circuit_type(JobMetadata(metadata[w]).circuit_id) :
       LET m == JobMetadata(metadata[w])
           r == prepare_result(m, vk)
       IN /\ leaf_vk' = [leaf_vk EXCEPT ![w] = IF get_artifacts(m) = "ok" THEN vk ELSE @]
          /\ IF r = "ok"
             THEN /\ pc' = [pc EXCEPT ![w] = "process_job"]
                  /\ last_get' = [last_get EXCEPT ![w] = "Some"]
                  /\ job_id' = [job_id EXCEPT ![w] = returned_job_id(m)]
                  /\ returned' = returned (+) SetToBag({returned_job_id(m)})
                  /\ UNCHANGED fatal
             ELSE /\ pc' = [pc EXCEPT ![w] = "panicked"]
                  /\ last_get' = [last_get EXCEPT ![w] = "Panic"]
                  /\ fatal' = [fatal EXCEPT ![m.id] = r]
                  /\ UNCHANGED <<job_id, returned>>
    /\ connection' = connection \ {w}
    /\ trace' = [trace EXCEPT ![metadata[w]] = Append(@, "prepare")]
    /\ UNCHANGED <<store, blobs, proofs, outcomes, metadata, artifacts, blob_urls,
                   transaction, failure, computed, handed>>

get_next_job(w) ==
    \/ get_next_leaf_aggregation_job(w)
    \/ get_next_job_none(w)
    \/ prepare_leaf_aggregation_job(w)


\* ----------------------------------------------------------- process_job

\* Mutant: the blocking task is spawned and forgotten, the loop takes the next
\* job without waiting for the JoinHandle.
process_job_detached(w) ==
    /\ pc[w] = "process_job"
    /\ pc' = [pc EXCEPT ![w] = "idle"]
    /\ job_id' = [job_id EXCEPT ![w] = NoJob]
    /\ metadata' = [metadata EXCEPT ![w] = NoJob]
    /\ trace' = [trace EXCEPT ![job_id[w]] = Append(@, "execute")]
    /\ leaf_vk' = [leaf_vk EXCEPT ![w] = NoVk]
    /\ UNCHANGED <<store, blobs, proofs, outcomes, connection, last_get, artifacts,
                   blob_urls, transaction, failure, history>>

\* Mutant: process_job takes a pool connection before it spawns the task and
\* keeps it while the task runs.
process_job_with_connection(w) ==
    /\ pc[w] = "process_job"
    /\ pc' = [pc EXCEPT ![w] = "executing"]
    /\ connection' = connection \cup {w}
    /\ trace' = [trace EXCEPT ![job_id[w]] = Append(@, "execute")]
    /\ UNCHANGED <<store, blobs, proofs, leaf_vk, outcomes, job_id, metadata, last_get,
                   artifacts, blob_urls, transaction, failure, history>>

\* process_job: spawn_blocking hands the job to a blocking thread and returns
\* the JoinHandle; no store connection is taken.
process_job(w) ==
    /\ pc[w] = "process_job"
    /\ pc' = [pc EXCEPT ![w] = "executing"]
    /\ trace' = [trace EXCEPT ![job_id[w]] = Append(@, "execute")]
    /\ UNCHANGED <<store, blobs, proofs, leaf_vk, outcomes, connection, job_id, metadata,
                   last_get, artifacts, blob_urls, transaction, failure, history>>

\* The job prepare_leaf_aggregation_job built, lines 185-192.
LeafAggregationWitnessGeneratorJob(m) ==
    [circuit_id |-> m.circuit_id, block_number |-> m.block_number]

\* What create_leaf_witnesses yields for n subsets: (subset id, queue, circuit)
\* triples, the circuit being the job's leaf-layer circuit.
create_leaf_witnesses(job, n) ==
    [i \in 1..n |->
        [sequence_number |-> i - 1,
         circuit_id |-> get_recursive_layer_circuit_id_for_base_layer(job.circuit_id)]]

\* process_leaf_aggregation_job on the blocking thread: the artifacts carry the
\* job's circuit id and batch number.
process_leaf_aggregation_job(w) ==
    /\ pc[w] = "executing"
    /\ \E n \in 0..MaxAggregations :
        LET job == LeafAggregationWitnessGeneratorJob(JobMetadata(metadata[w]))
        IN artifacts' = [artifacts EXCEPT ![w] =
                            [circuit_id |-> job.circuit_id,
                             block_number |-> job.block_number,
                             aggregations |-> create_leaf_witnesses(job, n)]]
    /\ computed' = computed \cup {job_id[w]}
    /\ pc' = [pc EXCEPT ![w] = "save_artifacts"]
    /\ UNCHANGED <<store, blobs, proofs, leaf_vk, outcomes, trace, connection, job_id,
                   metadata, last_get, blob_urls, transaction, failure, returned, fatal,
                   handed>>

\* The blocking task panics inside create_leaf_witnesses: the JoinHandle yields
\* an error and the loop goes to save_failure.
process_job_panics(w) ==
    /\ pc[w] = "executing"
    /\ computed' = computed \cup {job_id[w]}
    /\ fatal' = [fatal EXCEPT ![job_id[w]] = "computation failed"]
    /\ failure' = [failure EXCEPT ![w] = "computation failed"]
    /\ pc' = [pc EXCEPT ![w] = "save_failure"]
    /\ UNCHANGED <<store, blobs, proofs, leaf_vk, outcomes, trace, connection, job_id,
                   metadata, last_get, artifacts, blob_urls, transaction, returned,
                   handed>>

\* ---------------------------------------------------------- save_artifacts

\* What a put of the object store can answer.
PutResults == {"ok", "error"}

\* save_result does not return: the loop goes to save_failure with the message.
save_result_panics(w, message) ==
    /\ fatal' = [fatal EXCEPT ![job_id[w]] = message]
    /\ failure' = [failure EXCEPT ![w] = message]
    /\ pc' = [pc EXCEPT ![w] = "save_failure"]

\* save_artifacts, lines 285-292: one put of the aggregate blob, keyed by the
\* batch, the recursive circuit id and depth 0; its url is aggregations_urls.
\* A rejected put ends save_artifacts there.
save_node_aggregations_artifacts(w) ==
    /\ pc[w] = "save_artifacts"
    /\ \E put \in PutResults :
        LET key == AggregationsKey(artifacts[w].block_number,
                       get_recursive_layer_circuit_id_for_base_layer(artifacts[w].circuit_id),
                       0)
        IN IF put = "ok"
           THEN /\ blobs' = blobs \cup {key}
                /\ blob_urls' = [blob_urls EXCEPT ![w].aggregations_urls = key]
                /\ pc' = [pc EXCEPT ![w] =
                            IF Len(artifacts[w].aggregations) = 0 THEN "update_database"
                            ELSE "save_circuits"]
                /\ UNCHANGED <<failure, fatal>>
           ELSE /\ save_result_panics(w, "blob write failed")
                /\ UNCHANGED <<blobs, blob_urls>>
    /\ trace' = [trace EXCEPT ![job_id[w]] = Append(@, "persist")]
    /\ UNCHANGED <<store, proofs, leaf_vk, outcomes, connection, job_id, metadata,
                   last_get, artifacts, transaction, returned, computed, handed>>

\* Mutant: the url of every circuit blob is built from its key and returned
\* without the put having been made.
save_recursive_layer_prover_input_artifacts_without_put(w) ==
    /\ pc[w] = "save_circuits"
    /\ LET i == Len(blob_urls[w].circuit_ids_and_urls) + 1
           a == artifacts[w].aggregations[i]
           key == FriCircuitKey(artifacts[w].block_number, a.sequence_number,
                                a.circuit_id, "LeafAggregation", 0)
       IN /\ blob_urls' = [blob_urls EXCEPT ![w].circuit_ids_and_urls =
                              Append(@, <<a.circuit_id, key>>)]
          /\ pc' = [pc EXCEPT ![w] =
                      IF i = Len(artifacts[w].aggregations) THEN "update_database"
                      ELSE "save_circuits"]
    /\ UNCHANGED <<store, blobs, proofs, leaf_vk, outcomes, trace, connection, job_id,
                   metadata, last_get, artifacts, transaction, failure, history>>

\* Mutant: the result of each put is not checked; a rejected put still yields
\* its entry and save_artifacts goes on to return the BlobUrls.
save_recursive_layer_prover_input_artifacts_unchecked(w) ==
    /\ pc[w] = "save_circuits"
    /\ \E put \in PutResults :
        LET i == Len(blob_urls[w].circuit_ids_and_urls) + 1
            a == artifacts[w].aggregations[i]
            key == FriCircuitKey(artifacts[w].block_number, a.sequence_number,
                                 a.circuit_id, "LeafAggregation", 0)
        IN /\ blobs' = IF put = "ok" THEN blobs \cup {key} ELSE blobs
           /\ fatal' = IF put = "ok" THEN fatal
                       ELSE [fatal EXCEPT ![job_id[w]] = "blob write failed"]
           /\ blob_urls' = [blob_urls EXCEPT ![w].circuit_ids_and_urls =
                               Append(@, <<a.circuit_id, key>>)]
           /\ pc' = [pc EXCEPT ![w] =
                       IF i = Len(artifacts[w].aggregations) THEN "update_database"
                       ELSE "save_circuits"]
    /\ UNCHANGED <<store, proofs, leaf_vk, outcomes, trace, connection, job_id, metadata,
                   last_get, artifacts, transaction, failure, returned, computed, handed>>

\* save_artifacts, lines 293-301: one put per aggregation, in order; each yields
\* a (circuit id, url) entry of circuit_ids_and_urls.  A rejected put ends
\* save_artifacts there, the blobs written before it stay.
save_recursive_layer_prover_input_artifacts(w) ==
    /\ pc[w] = "save_circuits"
    /\ \E put \in PutResults :
        LET i == Len(blob_urls[w].circuit_ids_and_urls) + 1
            a == artifacts[w].aggregations[i]
            key == FriCircuitKey(artifacts[w].block_number, a.sequence_number,
                                 a.circuit_id, "LeafAggregation", 0)
        IN IF put = "ok"
           THEN /\ blobs' = blobs \cup {key}
                /\ blob_urls' = [blob_urls EXCEPT ![w].circuit_ids_and_urls =
                                    Append(@, <<a.circuit_id, key>>)]
                /\ pc' = [pc EXCEPT ![w] =
                            IF i = Len(artifacts[w].aggregations) THEN "update_database"
                            ELSE "save_circuits"]
                /\ UNCHANGED <<failure, fatal>>
           ELSE /\ save_result_panics(w, "blob write failed")
                /\ UNCHANGED <<blobs, blob_urls>>
    /\ UNCHANGED <<store, proofs, leaf_vk, outcomes, trace, connection, job_id, metadata,
                   last_get, artifacts, transaction, returned, computed, handed>>

save_artifacts(w) ==
    \/ save_node_aggregations_artifacts(w)
    \/ save_recursive_layer_prover_input_artifacts(w)

\* --------------------------------------------------------- update_database

TransactionSteps ==
    {"insert_prover_jobs", "update_node_aggregation_jobs_url",
     "mark_leaf_aggregation_as_successful", "commit"}

\* Mutant: the aggregate url is counted with the per-circuit entries.
number_of_dependent_jobs_with_aggregate(urls) == Len(urls.circuit_ids_and_urls) + 1

\* Mutant: the rows are tagged with the round after LeafAggregation.
prover_jobs_round_next == "NodeAggregation"

\* update_database, line 238.
number_of_dependent_jobs(urls) == Len(urls.circuit_ids_and_urls)

\* update_database, line 244: the round insert_prover_jobs tags the rows with.
prover_jobs_round == "LeafAggregation"

\* Mutant: save_result starts update_database without waiting for
\* save_artifacts to have run.
start_transaction_early(w) ==
    /\ pc[w] \in {"save_artifacts", "update_database"}
    /\ transaction' = [transaction EXCEPT ![w] = [NoTransaction EXCEPT !.open = TRUE]]
    /\ handed' = [handed EXCEPT ![job_id[w]] = blob_urls[w]]
    /\ pc' = [pc EXCEPT ![w] = "insert_prover_jobs"]
    /\ connection' = connection \cup {w}
    /\ trace' = [trace EXCEPT ![job_id[w]] = Append(@, "advance")]
    /\ UNCHANGED <<store, blobs, proofs, leaf_vk, outcomes, job_id, metadata, last_get,
                   artifacts, blob_urls, failure, returned, fatal, computed>>

\* update_database, lines 236-237: save_result has the BlobUrls of a finished
\* save_artifacts and opens a transaction on a pool connection.
start_transaction(w) ==
    /\ pc[w] = "update_database"
    /\ transaction' = [transaction EXCEPT ![w] = [NoTransaction EXCEPT !.open = TRUE]]
    /\ handed' = [handed EXCEPT ![job_id[w]] = blob_urls[w]]
    /\ pc' = [pc EXCEPT ![w] = "insert_prover_jobs"]
    /\ connection' = connection \cup {w}
    /\ trace' = [trace EXCEPT ![job_id[w]] = Append(@, "advance")]
    /\ UNCHANGED <<store, blobs, proofs, leaf_vk, outcomes, job_id, metadata, last_get,
                   artifacts, blob_urls, failure, returned, fatal, computed>>

\* Mutant: the rows are inserted on the pool connection, outside the transaction.
insert_prover_jobs_outside_transaction(w) ==
    /\ pc[w] = "insert_prover_jobs"
    /\ LET urls == blob_urls[w].circuit_ids_and_urls
           rows == [i \in 1..Len(urls) |->
                       ProverJobRow(artifacts[w].block_number, urls[i][1], urls[i][2],
                                    "LeafAggregation", 0, i - 1)]
       IN prover_jobs' = prover_jobs (+) SeqToBag(rows)
    /\ pc' = [pc EXCEPT ![w] = "update_node_aggregation_jobs_url"]
    /\ UNCHANGED <<status, error, node_jobs, blobs, proofs, leaf_vk, outcomes, trace,
                   connection, job_id, metadata, last_get, artifacts, blob_urls,
                   transaction, failure, history>>

\* update_database, lines 239-247: one row per (circuit id, url) entry, numbered
\* in order, in the batch, round LeafAggregation, depth 0; written in the
\* transaction.
insert_prover_jobs(w) ==
    /\ pc[w] = "insert_prover_jobs"
    /\ LET urls == blob_urls[w].circuit_ids_and_urls
           rows == [i \in 1..Len(urls) |->
                       ProverJobRow(artifacts[w].block_number, urls[i][1], urls[i][2],
                                    prover_jobs_round, 0, i - 1)]
       IN transaction' = [transaction EXCEPT ![w].prover_jobs = @ \o rows]
    /\ pc' = [pc EXCEPT ![w] = "update_node_aggregation_jobs_url"]
    /\ UNCHANGED <<store, blobs, proofs, leaf_vk, outcomes, trace, connection, job_id,
                   metadata, last_get, artifacts, blob_urls, failure, history>>

\* Mutant: the node row is selected by the job's base-layer circuit id.
update_node_aggregation_jobs_url_by_base_circuit(w) ==
    /\ pc[w] = "update_node_aggregation_jobs_url"
    /\ LET key == <<artifacts[w].block_number, artifacts[w].circuit_id, 0>>
           row == [number_of_dependent_jobs |-> number_of_dependent_jobs(blob_urls[w]),
                   aggregations_url |-> blob_urls[w].aggregations_urls]
       IN transaction' = [transaction EXCEPT ![w].node_jobs = Append(@, <<key, row>>)]
    /\ pc' = [pc EXCEPT ![w] = "mark_leaf_aggregation_as_successful"]
    /\ UNCHANGED <<store, blobs, proofs, leaf_vk, outcomes, trace, connection, job_id,
                   metadata, last_get, artifacts, blob_urls, failure, history>>

\* update_database, lines 248-257: the node-aggregation row of (batch, recursive
\* circuit id, depth 0) gets the dependent-job count and the aggregate url.
update_node_aggregation_jobs_url(w) ==
    /\ pc[w] = "update_node_aggregation_jobs_url"
    /\ LET key == <<artifacts[w].block_number,
                    get_recursive_layer_circuit_id_for_base_layer(artifacts[w].circuit_id),
                    0>>
           row == [number_of_dependent_jobs |-> number_of_dependent_jobs(blob_urls[w]),
                   aggregations_url |-> blob_urls[w].aggregations_urls]
       IN transaction' = [transaction EXCEPT ![w].node_jobs = Append(@, <<key, row>>)]
    /\ pc' = [pc EXCEPT ![w] = "mark_leaf_aggregation_as_successful"]
    /\ UNCHANGED <<store, blobs, proofs, leaf_vk, outcomes, trace, connection, job_id,
                   metadata, last_get, artifacts, blob_urls, failure, history>>

\* Mutant: the batch number is passed in place of the job id.
mark_leaf_aggregation_as_successful_by_batch(w) ==
    /\ pc[w] = "mark_leaf_aggregation_as_successful"
    /\ transaction' = [transaction EXCEPT ![w].successful =
                          Append(@, artifacts[w].block_number)]
    /\ pc' = [pc EXCEPT ![w] = "commit"]
    /\ UNCHANGED <<store, blobs, proofs, leaf_vk, outcomes, trace, connection, job_id,
                   metadata, last_get, artifacts, blob_urls, failure, history>>

\* update_database, lines 258-261.
mark_leaf_aggregation_as_successful(w) ==
    /\ pc[w] = "mark_leaf_aggregation_as_successful"
    /\ transaction' = [transaction EXCEPT ![w].successful = Append(@, job_id[w])]
    /\ pc' = [pc EXCEPT ![w] = "commit"]
    /\ UNCHANGED <<store, blobs, proofs, leaf_vk, outcomes, trace, connection, job_id,
                   metadata, last_get, artifacts, blob_urls, failure, history>>

\* The node-aggregation rows after the buffered updates, applied in order; an
\* update of a key no row has changes nothing.
RECURSIVE ApplyNodeUpdates(_, _)
ApplyNodeUpdates(rows, updates) ==
    IF updates = <<>> THEN rows
    ELSE LET u == Head(updates)
         IN ApplyNodeUpdates(
                IF u[1] \in DOMAIN rows THEN [rows EXCEPT ![u[1]] = u[2]] ELSE rows,
                Tail(updates))

\* update_database, line 263: the three writes take effect together; save_result
\* returns and the worker is back at the top of its loop.
commit(w) ==
    /\ pc[w] = "commit"
    /\ prover_jobs' = prover_jobs (+) SeqToBag(transaction[w].prover_jobs)
    /\ node_jobs' = ApplyNodeUpdates(node_jobs, transaction[w].node_jobs)
    /\ status' = [j \in JobIds |->
                    IF \E i \in 1..Len(transaction[w].successful) :
                           transaction[w].successful[i] = j
                    THEN "successful" ELSE status[j]]
    /\ pc' = [pc EXCEPT ![w] = "idle"]
    /\ job_id' = [job_id EXCEPT ![w] = NoJob]
    /\ metadata' = [metadata EXCEPT ![w] = NoJob]
    /\ artifacts' = [artifacts EXCEPT ![w] = NoArtifacts]
    /\ blob_urls' = [blob_urls EXCEPT ![w] = NoBlobUrls]
    /\ transaction' = [transaction EXCEPT ![w] = NoTransaction]
    /\ connection' = connection \ {w}
    /\ outcomes' = [j \in JobIds |->
                      IF \E i \in 1..Len(transaction[w].successful) :
                             transaction[w].successful[i] = j
                      THEN Append(outcomes[j], "successful") ELSE outcomes[j]]
    /\ leaf_vk' = [leaf_vk EXCEPT ![w] = NoVk]
    /\ UNCHANGED <<error, blobs, proofs, trace, last_get, failure, history>>

\* A statement of update_database, opening the transaction or the commit fails:
\* the transaction is dropped without commit, which rolls it back, and
\* save_result ends there.
update_database_fails(w) ==
    /\ pc[w] \in {"update_database"} \cup TransactionSteps
    /\ transaction' = [transaction EXCEPT ![w] = NoTransaction]
    /\ save_result_panics(w, "state advance failed")
    /\ connection' = connection \ {w}
    /\ trace' = [trace EXCEPT ![job_id[w]] =
                    IF pc[w] = "update_database" THEN Append(@, "advance") ELSE @]
    /\ UNCHANGED <<store, blobs, proofs, leaf_vk, outcomes, job_id, metadata, last_get,
                   artifacts, blob_urls, returned, computed, handed>>

update_database(w) ==
    \/ start_transaction(w)
    \/ insert_prover_jobs(w)
    \/ update_node_aggregation_jobs_url(w)
    \/ mark_leaf_aggregation_as_successful(w)
    \/ commit(w)
    \/ update_database_fails(w)

\* save_result, lines 138-149: save_artifacts, then update_database.
save_result(w) == save_artifacts(w) \/ update_database(w)

\* ------------------------------------------------------------ save_failure

\* Mutant: the failed row is put back in the queue with its error text.
save_failure_requeues(w) ==
    /\ pc[w] = "save_failure"
    /\ status' = [status EXCEPT ![job_id[w]] = "queued"]
    /\ error' = [error EXCEPT ![job_id[w]] = failure[w]]
    /\ pc' = [pc EXCEPT ![w] = "idle"]
    /\ job_id' = [job_id EXCEPT ![w] = NoJob]
    /\ metadata' = [metadata EXCEPT ![w] = NoJob]
    /\ artifacts' = [artifacts EXCEPT ![w] = NoArtifacts]
    /\ blob_urls' = [blob_urls EXCEPT ![w] = NoBlobUrls]
    /\ failure' = [failure EXCEPT ![w] = ""]
    /\ leaf_vk' = [leaf_vk EXCEPT ![w] = NoVk]
    /\ UNCHANGED <<prover_jobs, node_jobs, blobs, proofs, outcomes, trace, connection,
                   last_get, transaction, history>>

\* Mutant: the error is dropped, the job row is not written.
save_failure_drops_error(w) ==
    /\ pc[w] = "save_failure"
    /\ pc' = [pc EXCEPT ![w] = "idle"]
    /\ job_id' = [job_id EXCEPT ![w] = NoJob]
    /\ metadata' = [metadata EXCEPT ![w] = NoJob]
    /\ artifacts' = [artifacts EXCEPT ![w] = NoArtifacts]
    /\ blob_urls' = [blob_urls EXCEPT ![w] = NoBlobUrls]
    /\ failure' = [failure EXCEPT ![w] = ""]
    /\ leaf_vk' = [leaf_vk EXCEPT ![w] = NoVk]
    /\ UNCHANGED <<store, blobs, proofs, outcomes, trace, connection, last_get,
                   transaction, history>>

\* Mutant: the failure is recorded under the batch number of the job.
save_failure_by_batch(w) ==
    /\ pc[w] = "save_failure"
    /\ LET id == JobMetadata(metadata[w]).block_number
       IN /\ status' = [status EXCEPT ![id] = "failed"]
          /\ error' = [error EXCEPT ![id] = failure[w]]
          /\ outcomes' = [outcomes EXCEPT ![id] = Append(@, "failed")]
    /\ pc' = [pc EXCEPT ![w] = "idle"]
    /\ job_id' = [job_id EXCEPT ![w] = NoJob]
    /\ metadata' = [metadata EXCEPT ![w] = NoJob]
    /\ artifacts' = [artifacts EXCEPT ![w] = NoArtifacts]
    /\ blob_urls' = [blob_urls EXCEPT ![w] = NoBlobUrls]
    /\ failure' = [failure EXCEPT ![w] = ""]
    /\ leaf_vk' = [leaf_vk EXCEPT ![w] = NoVk]
    /\ UNCHANGED <<prover_jobs, node_jobs, blobs, proofs, trace, connection, last_get,
                   transaction, history>>

\* save_failure: the job row of job_id is marked failed with the error text;
\* the worker is back at the top of its loop.
save_failure(w) ==
    /\ pc[w] = "save_failure"
    /\ status' = [status EXCEPT ![job_id[w]] = "failed"]
    /\ error' = [error EXCEPT ![job_id[w]] = failure[w]]
    /\ pc' = [pc EXCEPT ![w] = "idle"]
    /\ job_id' = [job_id EXCEPT ![w] = NoJob]
    /\ metadata' = [metadata EXCEPT ![w] = NoJob]
    /\ artifacts' = [artifacts EXCEPT ![w] = NoArtifacts]
    /\ blob_urls' = [blob_urls EXCEPT ![w] = NoBlobUrls]
    /\ failure' = [failure EXCEPT ![w] = ""]
    /\ outcomes' = [outcomes EXCEPT ![job_id[w]] = Append(@, "failed")]
    /\ leaf_vk' = [leaf_vk EXCEPT ![w] = NoVk]
    /\ UNCHANGED <<prover_jobs, node_jobs, blobs, proofs, trace, connection, last_get,
                   transaction, history>>

\* ------------------------------------------------------------ environment

\* The worker's process is killed in the middle of a job: its memory and its
\* connection are gone, an open transaction is rolled back by the store.
kill(w) ==
    /\ pc[w] \notin {"idle", "panicked", "killed"}
    /\ pc' = [pc EXCEPT ![w] = "killed"]
    /\ artifacts' = [artifacts EXCEPT ![w] = NoArtifacts]
    /\ blob_urls' = [blob_urls EXCEPT ![w] = NoBlobUrls]
    /\ transaction' = [transaction EXCEPT ![w] = NoTransaction]
    /\ failure' = [failure EXCEPT ![w] = ""]
    /\ connection' = connection \ {w}
    /\ leaf_vk' = [leaf_vk EXCEPT ![w] = NoVk]
    /\ UNCHANGED <<store, blobs, proofs, outcomes, trace, job_id, metadata, last_get,
                   history>>

\* ------------------------------------------------------------------ Next

\* One step of worker w's loop.
run(w) ==
    \/ get_next_job(w)
    \/ process_job(w)
    \/ process_leaf_aggregation_job(w)
    \/ process_job_panics(w)
    \/ save_result(w)
    \/ save_failure(w)

Next ==
    \E w \in Workers :
        \/ run(w)
        \/ kill(w)

Spec == Init /\ [][Next]_vars


\* ------------------------------------------------- a retried save step

\* The surrounding call of save_result is made again with the same artifacts
\* after an attempt whose update_database ended without commit: save_artifacts
\* and update_database run from the start, their phases are entered anew.
retry_save_result(w) ==
    /\ pc[w] = "save_failure"
    /\ failure[w] = "state advance failed"
    /\ pc' = [pc EXCEPT ![w] = "save_artifacts"]
    /\ blob_urls' = [blob_urls EXCEPT ![w] = NoBlobUrls]
    /\ failure' = [failure EXCEPT ![w] = ""]
    /\ trace' = [trace EXCEPT ![job_id[w]] =
                    SelectSeq(@, LAMBDA phase : phase \notin {"persist", "advance"})]
    /\ UNCHANGED <<store, blobs, proofs, leaf_vk, outcomes, connection, job_id, metadata,
                   last_get, artifacts, transaction, history>>

NextRetry == \E w \in Workers : run(w) \/ retry_save_result(w)

\* The engine under a policy that retries the save step.
SpecRetry == Init /\ [][NextRetry]_vars

\* ------------------------------------------------- the leaf key id alone

\* Every worker is about to prepare a job whose row carries circuit id c, any
\* value of a u8; the stores are empty.
InitVk ==
    /\ status = [j \in JobIds |-> "queued"]
    /\ error = [j \in JobIds |-> ""]
    /\ prover_jobs = EmptyBag
    /\ node_jobs = [k \in NodeKeys |-> NullNodeJob]
    /\ blobs = {}
    /\ proofs = [j \in JobIds |-> <<"Base", "Base">>]
    /\ pc = [w \in Workers |-> "idle"]
    /\ job_id = [w \in Workers |-> NoJob]
    /\ metadata = [w \in Workers |-> NoJob]
    /\ last_get = [w \in Workers |-> "-"]
    /\ artifacts = [w \in Workers |-> NoArtifacts]
    /\ blob_urls = [w \in Workers |-> NoBlobUrls]
    /\ transaction = [w \in Workers |-> NoTransaction]
    /\ failure = [w \in Workers |-> ""]
    /\ connection = {}
    /\ \E c \in 0..U8Max :
          leaf_vk = [w \in Workers |-> [NoVk EXCEPT !.circuit_id = <<c>>]]
    /\ returned = EmptyBag
    /\ fatal = [j \in JobIds |-> ""]
    /\ computed = {}
    /\ handed = [j \in JobIds |-> NoBlobUrls]
    /\ trace = [j \in JobIds |-> <<>>]
    /\ outcomes = [j \in JobIds |-> <<>>]

\* prepare_leaf_aggregation_job, line 169, for the circuit id the worker read.
get_recursive_layer_vk_for_circuit_type(w) ==
    /\ leaf_vk[w].circuit_id # <<>>
    /\ leaf_vk[w].value = <<>> /\ ~ leaf_vk[w].panic
    /\ \E vk \in leaf_vk_circuit_type(leaf_vk[w].circuit_id[1]) :
          leaf_vk' = [leaf_vk EXCEPT ![w] = vk]
    /\ UNCHANGED <<store, blobs, proofs, pc, job_id, metadata, last_get, artifacts,
                   blob_urls, transaction, failure, connection, history, trace, outcomes>>

NextVk == \E w \in Workers : get_recursive_layer_vk_for_circuit_type(w)

SpecVk == InitVk /\ [][NextVk]_vars

\* ------------------------------------------- fair scheduling, no crash

\* No process is killed, and a worker that can take a step of its loop
\* eventually takes one.
NextNoCrash == \E w \in Workers : run(w)

SpecFair == Init /\ [][NextNoCrash]_vars /\ \A w \in Workers : WF_vars(run(w))


\* ================================================================ claims

\* The prover-job rows of job j's (batch, leaf circuit) in the store.
DownstreamRows(j) ==
    {r \in BagToSet(prover_jobs) :
        /\ r.l1_batch_number = JobMetadata(j).block_number
        /\ r.circuit_id =
               get_recursive_layer_circuit_id_for_base_layer(JobMetadata(j).circuit_id)}

\* The node-aggregation row update_database selects for job j.
NodeKeyOf(j) ==
    <<JobMetadata(j).block_number,
      get_recursive_layer_circuit_id_for_base_layer(JobMetadata(j).circuit_id), 0>>

\* The blobs save_artifacts wrote for job j.
BlobsOf(j) ==
    {b \in blobs :
        /\ b[1] \in {"aggregations", "circuit"}
        /\ b[2] = JobMetadata(j).block_number
        /\ b[3] = get_recursive_layer_circuit_id_for_base_layer(JobMetadata(j).circuit_id)}

\* The workers that hold row j: claimed it and have not finished with it.
Holders(j) == {w \in Workers : metadata[w] = j}

\* C1. Exclusivity: over all get_next_job calls of all workers, in every
\* interleaving, no job id is returned by two calls.
C1_Exclusivity ==
    \A id \in BagToSet(returned) : CopiesIn(id, returned) = 1

\* C1 witness: two workers hold a job that get_next_job returned to them at
\* the same time.
C1_Witness ==
    \E w1, w2 \in Workers :
        /\ w1 # w2
        /\ pc[w1] = "process_job" /\ pc[w2] = "process_job"
        /\ job_id[w1] # NoJob /\ job_id[w2] # NoJob

\* C2. Atomicity: while a job is not marked successful (update_database has not
\* committed: it has not run, is in progress, failed or was interrupted), the
\* store holds none of update_database's writes for it: no prover-job row and
\* no dependent-job count or url in its node-aggregation row.
C2_Atomicity ==
    \A j \in JobIds :
        status[j] # "successful" =>
            /\ DownstreamRows(j) = {}
            /\ node_jobs[NodeKeyOf(j)] = NullNodeJob

\* C2 witness: one worker has buffered all three writes of a job with two
\* downstream entries and has not committed; another was killed inside
\* update_database for such a job, which is left in progress.
C2_Witness ==
    \E w \in Workers :
        /\ pc[w] = "commit"
        /\ Len(transaction[w].prover_jobs) = 2
        /\ Len(transaction[w].node_jobs) = 1
        /\ Len(transaction[w].successful) = 1
        /\ \E v \in Workers :
            /\ pc[v] = "killed"
            /\ job_id[v] # NoJob
            /\ Len(handed[job_id[v]].circuit_ids_and_urls) = 2
            /\ status[job_id[v]] = "in_progress"

\* C3. Durability ordering: when update_database begins and while its
\* transaction is open, every url of the BlobUrls (one per aggregation, plus
\* the aggregate url) is a blob present in the object store; so is the url of
\* every prover-job row, buffered or committed, and of every node-aggregation
\* row that has one.
C3_DurabilityOrdering ==
    /\ \A w \in Workers :
        pc[w] \in {"update_database"} \cup TransactionSteps =>
            /\ Len(blob_urls[w].circuit_ids_and_urls) = Len(artifacts[w].aggregations)
            /\ blob_urls[w].aggregations_urls \in blobs
            /\ \A i \in 1..Len(blob_urls[w].circuit_ids_and_urls) :
                   blob_urls[w].circuit_ids_and_urls[i][2] \in blobs
    /\ \A w \in Workers :
        /\ \A i \in 1..Len(transaction[w].prover_jobs) :
               transaction[w].prover_jobs[i].circuit_blob_url \in blobs
        /\ \A i \in 1..Len(transaction[w].node_jobs) :
               transaction[w].node_jobs[i][2].aggregations_url \in blobs
    /\ \A r \in BagToSet(prover_jobs) : r.circuit_blob_url \in blobs
    /\ \A k \in DOMAIN node_jobs :
        node_jobs[k] # NullNodeJob => node_jobs[k].aggregations_url \in blobs

\* C3 witness: a committed job with two prover-job rows.
C3_Witness ==
    \E j \in JobIds :
        /\ status[j] = "successful"
        /\ Cardinality(DownstreamRows(j)) = 2


\* The closed-form input bundle of job j is absent from the object store.
ClosedFormInputMissing(j) ==
    ClosedFormInputKey(JobMetadata(j).block_number, JobMetadata(j).circuit_id) \notin blobs

\* The proofs job j refers to include a Recursive proof.
HasRecursiveProof(j) ==
    \E i \in 1..Len(proofs[j]) : proofs[j][i] = "Recursive"

\* No worker is in the middle of anything: every worker is idle, panicked or
\* killed, and no idle worker has a row left to claim.
Quiescent ==
    /\ \A w \in Workers : pc[w] \in {"idle", "panicked", "killed"}
    /\ \/ \A w \in Workers : pc[w] # "idle"
       \/ \A j \in JobIds : ~ Eligible(j)

PostClaimErrors == {"computation failed", "blob write failed", "state advance failed"}

\* The fatal errors of the preparation inside get_next_job.
PreparationErrors ==
    {"leaf aggregation job artifacts missing", "Expected only base proofs for leaf agg"}

PreparationError(j) == ClosedFormInputMissing(j) \/ HasRecursiveProof(j)

\* C6. An error of the preparation inside get_next_job crashes the claiming
\* worker: a claimed job whose preparation cannot succeed is held by a worker
\* that is still preparing it, has panicked out of get_next_job (no None, no
\* job returned, no job id known to the loop) or was killed while preparing;
\* that worker never holds another job.
C6_PreparationPanics ==
    \A j \in JobIds :
        (PreparationError(j) /\ status[j] # "queued") =>
            \E w \in Holders(j) :
                \/ pc[w] = "prepare" /\ last_get[w] = "pending"
                \/ pc[w] = "killed" /\ last_get[w] = "pending"
                \/ /\ pc[w] = "panicked"
                   /\ last_get[w] = "Panic"
                   /\ job_id[w] = NoJob
                   /\ CopiesIn(j, returned) = 0

\* C6 witness: a worker has panicked out of get_next_job on a missing blob
\* while another eligible row is waiting.
C6_Witness ==
    \E w \in Workers :
        /\ pc[w] = "panicked"
        /\ last_get[w] = "Panic"
        /\ ClosedFormInputMissing(metadata[w])
        /\ \E j \in JobIds : Eligible(j)

\* C7. Variant invariant: a job whose proofs include a Recursive proof never
\* gets past the preparation: get_next_job never returns it, the computation
\* never runs for it, and it gets no blob and no downstream row.
C7_VariantInvariant ==
    \A j \in JobIds :
        HasRecursiveProof(j) =>
            /\ CopiesIn(j, returned) = 0
            /\ j \notin computed
            /\ \A w \in Holders(j) : pc[w] \in {"prepare", "panicked", "killed"}
            /\ BlobsOf(j) = {}
            /\ DownstreamRows(j) = {}
            /\ node_jobs[NodeKeyOf(j)] = NullNodeJob
            /\ handed[j] = NoBlobUrls

\* C7 witness: the preparation of a job whose closed-form input is present has
\* panicked on a Recursive proof.
C7_Witness ==
    \E w \in Workers :
        /\ pc[w] = "panicked"
        /\ ~ ClosedFormInputMissing(metadata[w])
        /\ HasRecursiveProof(metadata[w])
        /\ fatal[metadata[w]] = "Expected only base proofs for leaf agg"


\* C8. Scenario C: after a put of save_artifacts was rejected for a job,
\* update_database is never called for it, so the store has no downstream row,
\* no count or url and no success mark for it, no prover-job row refers to a
\* blob written in that attempt, and once the worker is done with the job it
\* is marked failed with the error text.
C8_PersistenceFailure ==
    \A j \in JobIds :
        fatal[j] = "blob write failed" =>
            /\ handed[j] = NoBlobUrls
            /\ \A w \in Workers : job_id[w] = j => ~ transaction[w].open
            /\ DownstreamRows(j) = {}
            /\ node_jobs[NodeKeyOf(j)] = NullNodeJob
            /\ \A r \in BagToSet(prover_jobs) : r.circuit_blob_url \notin BlobsOf(j)
            /\ status[j] # "successful"
            /\ Holders(j) = {} => (status[j] = "failed" /\ error[j] = "blob write failed")

\* C8 witness: the second put of a job's save_artifacts was rejected; the job
\* is marked failed and the blob of the first put is in the object store.
C8_Witness ==
    \E j \in JobIds :
        /\ fatal[j] = "blob write failed"
        /\ status[j] = "failed"
        /\ Cardinality(BlobsOf(j)) = 1

\* The prover-job rows written so far: committed, or buffered in a transaction.
WrittenRows ==
    BagToSet(prover_jobs) \cup
    UNION {{transaction[w].prover_jobs[i] : i \in 1..Len(transaction[w].prover_jobs)} :
              w \in Workers}

ExpectedRow(block_number, urls, i) ==
    [l1_batch_number |-> block_number,
     circuit_id |-> urls[i][1],
     circuit_blob_url |-> urls[i][2],
     depth |-> 0,
     sequence_number |-> i - 1]

\* A prover-job row without its round tag.
Untagged(r) ==
    [l1_batch_number |-> r.l1_batch_number,
     circuit_id |-> r.circuit_id,
     circuit_blob_url |-> r.circuit_blob_url,
     depth |-> r.depth,
     sequence_number |-> r.sequence_number]

\* C10. Fan-out: a job is marked successful exactly when its update_database
\* committed, and then the store holds exactly one prover-job row per entry of
\* the circuit_ids_and_urls it was called with, each once, in the job's batch
\* with depth 0 and the entry's circuit id and url, and the job's
\* node-aggregation row holds that number of rows and the aggregate url; a job
\* not marked successful has none of these.
C10_FanOut ==
    \A j \in JobIds :
        LET urls == handed[j].circuit_ids_and_urls
            rows == DownstreamRows(j)
        IN IF status[j] = "successful"
           THEN /\ {Untagged(r) : r \in rows} =
                       {ExpectedRow(JobMetadata(j).block_number, urls, i) :
                           i \in 1..Len(urls)}
                /\ Cardinality(rows) = Len(urls)
                /\ \A r \in rows : CopiesIn(r, prover_jobs) = 1
                /\ node_jobs[NodeKeyOf(j)] =
                       [number_of_dependent_jobs |-> Len(urls),
                        aggregations_url |-> handed[j].aggregations_urls]
                /\ handed[j].aggregations_urls # NoUrl
           ELSE /\ rows = {}
                /\ node_jobs[NodeKeyOf(j)] = NullNodeJob

\* C10 witness: both jobs are marked successful, one with two prover-job rows
\* and one with none.
C10_Witness ==
    \E j, k \in JobIds :
        /\ status[j] = "successful" /\ status[k] = "successful"
        /\ Len(handed[j].circuit_ids_and_urls) = 2
        /\ Cardinality(DownstreamRows(j)) = 2
        /\ Len(handed[k].circuit_ids_and_urls) = 0
        /\ node_jobs[NodeKeyOf(k)].number_of_dependent_jobs = 0


\* C11. Claim durability and at-most-once consumption: no step makes a claimed
\* row eligible again or gives it to a second worker; a row held by a worker
\* that was killed or has panicked between claim and completion stays in
\* progress, held by that worker alone, and no id is returned twice.
C11_ClaimDurability ==
    [][\A j \in JobIds :
          /\ ~ Eligible(j) => ~ Eligible(j)'
          /\ Holders(j) # {} => (Holders(j)' \subseteq Holders(j))
          /\ (\E w \in Holders(j) : pc[w] \in {"killed", "panicked"}) =>
                /\ status[j] = "in_progress" /\ status'[j] = "in_progress"
                /\ Holders(j)' = Holders(j)
          /\ CopiesIn(j, returned') <= 1]_vars

\* C11 witness: a worker was killed after get_next_job returned its job; the
\* row is in progress and another worker has since polled and got None.
C11_Witness ==
    \E w, v \in Workers :
        /\ pc[w] = "killed"
        /\ job_id[w] # NoJob
        /\ status[job_id[w]] = "in_progress"
        /\ pc[v] = "idle"
        /\ last_get[v] = "None"

\* The terminal states of a job row.
Terminal == {"successful", "failed"}

\* C12. Terminal states: no step changes the status or the error text of a row
\* that is successful or failed, and no step gives such a row to a worker.
C12_TerminalStates ==
    [][\A j \in JobIds :
          status[j] \in Terminal =>
              /\ status'[j] = status[j]
              /\ error'[j] = error[j]
              /\ Holders(j)' = {}
              /\ CopiesIn(j, returned') = CopiesIn(j, returned)]_vars

\* C12 witness: one job is failed, the other successful, and a worker has
\* polled since and got None.
C12_Witness ==
    \E j, k \in JobIds :
        /\ status[j] = "failed"
        /\ status[k] = "successful"
        /\ \E w \in Workers : pc[w] = "idle" /\ last_get[w] = "None"


\* C13. Retry safety of the save step: with save_result run again after
\* attempts that did not commit, no prover-job row is in the store twice, a
\* job marked successful has exactly one row per entry of the BlobUrls of the
\* attempt that committed, and a job not marked successful has none.
C13_RetrySafety ==
    \A j \in JobIds :
        /\ \A r \in DownstreamRows(j) : CopiesIn(r, prover_jobs) = 1
        /\ Cardinality(DownstreamRows(j)) =
               IF status[j] = "successful" THEN Len(handed[j].circuit_ids_and_urls) ELSE 0
        /\ BagCardinality(prover_jobs) =
               Cardinality(UNION {DownstreamRows(k) : k \in JobIds})

\* C13 witness: a job whose update_database failed once was saved again and is
\* successful with its two rows.
C13_Witness ==
    \E j \in JobIds :
        /\ fatal[j] = "state advance failed"
        /\ status[j] = "successful"
        /\ Len(handed[j].circuit_ids_and_urls) = 2
        /\ Cardinality(DownstreamRows(j)) = 2

Executing == {w \in Workers : pc[w] = "executing"}

\* C15 (execution isolation): a worker whose job is in the Executing phase
\* holds no store connection and no open transaction, and while it executes
\* every idle worker can claim any eligible job.
C15_ExecutionIsolation ==
    \A w \in Executing :
        /\ w \notin connection
        /\ ~ transaction[w].open
        /\ \A v \in Workers \ {w} :
              (pc[v] = "idle" /\ \E j \in JobIds : Eligible(j)) =>
                  ENABLED get_next_leaf_aggregation_job(v)

C15_Witness ==
    \E w \in Executing : \E v \in Workers \ {w} :
        /\ pc[v] = "idle"
        /\ \E j \in JobIds : Eligible(j)
        /\ connection = {}

\* The phases of a job, in the order of the JobProcessor loop: get_next_job,
\* prepare_leaf_aggregation_job, process_job, save_artifacts, update_database.
Phases == <<"claim", "prepare", "execute", "persist", "advance">>

IsPrefix(s, t) == Len(s) <= Len(t) /\ s = SubSeq(t, 1, Len(s))

\* C16 (phase ordering): the phases a job has entered are an initial part of
\* claim, prepare, execute, persist, advance, each entered once and in that
\* order, and a successful job has entered all five.
C16_PhaseOrdering ==
    \A j \in JobIds :
        /\ IsPrefix(trace[j], Phases)
        /\ status[j] = "successful" => trace[j] = Phases

C16_Witness ==
    \E j, k \in JobIds :
        /\ status[j] = "successful" /\ trace[j] = Phases
        /\ status[k] = "failed" /\ trace[k] = SubSeq(Phases, 1, 3)

\* The node-row updates update_database has made: buffered in an open
\* transaction (with the job they are made for) or committed.
NodeUpdates ==
    UNION {{<<job_id[w], transaction[w].node_jobs[i][1], transaction[w].node_jobs[i][2]>> :
               i \in 1..Len(transaction[w].node_jobs)} : w \in Workers}
    \cup {<<j, NodeKeyOf(j), node_jobs[NodeKeyOf(j)]>> :
               j \in {k \in JobIds : status[k] = "successful"}}

\* C17 (key consistency of the fan-in pointer): every node-row update made for
\* a job selects the row by the batch number, circuit id and depth of the key
\* under which save_artifacts wrote the job's aggregate blob, stores the url
\* that write returned and the number of circuit entries; the blob exists.
C17_KeyConsistency ==
    \A u \in NodeUpdates :
        LET j == u[1]  key == u[2]  row == u[3]
        IN /\ key \in DOMAIN node_jobs
           /\ row.aggregations_url = AggregationsKey(key[1], key[2], key[3])
           /\ row.aggregations_url = handed[j].aggregations_urls
           /\ row.aggregations_url \in BlobsOf(j)
           /\ row.number_of_dependent_jobs = Len(handed[j].circuit_ids_and_urls)

C17_Witness ==
    \E j \in JobIds :
        /\ status[j] = "successful"
        /\ node_jobs[NodeKeyOf(j)].aggregations_url \in blobs
        /\ node_jobs[NodeKeyOf(j)].number_of_dependent_jobs = MaxAggregations

\* C18 (outcome exclusivity): at most one mark has taken effect on a job row,
\* the success mark of a committed update_database or the failure record of
\* save_failure; a successful row carries no error text and a failed row one.
C18_OutcomeExclusivity ==
    \A j \in JobIds :
        /\ Len(outcomes[j]) <= 1
        /\ status[j] = "successful" <=> outcomes[j] = <<"successful">>
        /\ status[j] = "failed" <=> outcomes[j] = <<"failed">>
        /\ error[j] # "" <=> outcomes[j] = <<"failed">>

C18_Witness ==
    \E j, k \in JobIds :
        /\ outcomes[j] = <<"successful">> /\ status[j] = "successful" /\ error[j] = ""
        /\ outcomes[k] = <<"failed">> /\ error[k] = "state advance failed"

\* C19 as stated (leaf verification-key id arithmetic): for every circuit id
\* of a u8 the leaf key id computed in preparation is circuit_id + 2 and lies
\* within the u8 range: the addition neither panics nor wraps.
C19_LeafVkInRange ==
    \A w \in Workers :
        (leaf_vk[w].value # <<>> \/ leaf_vk[w].panic) =>
            /\ ~ leaf_vk[w].panic
            /\ leaf_vk[w].value = <<leaf_vk[w].circuit_id[1] + 2>>
            /\ leaf_vk[w].value[1] <= U8Max

====
